---- MODULE Spec2Model ----
(***************************************************************************)
(* Model of the Hytale launcher auto-download service                      *)
(* (src/unnamed/part_003): the polling scheduler, processEndpoint, the     *)
(* extract / run / harvest routine, the sensitive-data copy filter and the *)
(* git publisher.                                                          *)
(*                                                                         *)
(* Names (directory names, versions) are sequences of tokens; a token is   *)
(* a run of characters that is never split.  `${a}-${b}` is the            *)
(* concatenation a \o <<"-">> \o b.                                        *)
(***************************************************************************)
EXTENDS Integers, Sequences, FiniteSets, TLC

\* ------------------------------------------------------------------ bounds
\* Number of checkForNewVersions cycles the model runs (initial check + ticks).
MaxCycles == 3

\* Environment anomalies in one run: a failed manifest fetch, a failed or
\* corrupted download, a failed unzip, a launcher that ends on its own, a
\* missing data directory, a failed copy, a launcher that ignores SIGTERM.
MaxFaults == 1

\* Environment anomalies in one single-shot run that launches the launcher:
\* such a run is short, and two anomalies can meet in it (a missing data
\* directory and a launcher that ignores SIGTERM).
MaxFaultsOnce == 2

\* Source trees handed to copyDirectoryWithFilters: entries per directory and
\* levels of directories.
MaxEntries == 2

MaxDepth == 2

\* Length, in tokens, of a path handed to gitAdd.
MaxPathLen == 5

\* ------------------------------------------------------------------ state
VARIABLES
    cfg,          \* CONFIG: the option flags read from the environment
    jsonVersion,  \* per channel: the version field of the manifest it serves
    now,          \* wall clock, the source of every timestamp
    versionDirs,  \* names of the directories under versions/
    artifacts,    \* artifact files under versions/<dir>/<platform>-<arch>/
    metaFiles,    \* other files under versions/<dir>/
    extractedDirs,\* fullVersions with a directory extracted/<fullVersion>
    unzipped,     \* fullVersions whose linux-launcher holds unzipped files
    manifests,    \* fullVersions with an extraction-manifest.json
    runtimeDirs,  \* names of the directories under runtime-archives/
    cyc,          \* per cycle: position and locals of checkForNewVersions
    harvests,     \* per cycle and channel: the launched child and its harvest
    verifiedLog,  \* artifacts logged "Downloaded and verified"
    zipTree,       \* the files and directories the Linux archive unpacks to
    intervalOn,   \* setInterval has been installed by main
    exited,       \* process.exit was called
    exitStatus,   \* the status process.exit was called with (-1: still running)
    faults,       \* environment anomalies so far
    srcTree,      \* copyDirectoryWithFilters: the source directory tree
    frames,       \* copyDirectoryWithFilters: the stack of running calls
    destTree,     \* copyDirectoryWithFilters: the entries made under dest
    copyResult,   \* copyDirectoryWithFilters: what the outermost call returned
    git           \* gitAdd: its argument, what it logged and handed to git add

\* The state of the service proper.
serviceVars == <<cfg, jsonVersion, now, versionDirs, artifacts, metaFiles, extractedDirs, unzipped,
                 manifests, runtimeDirs, cyc, harvests, verifiedLog, zipTree,
                 intervalOn, exited, exitStatus>>

\* The state of one copyDirectoryWithFilters call.
copyVars == <<srcTree, frames, destTree, copyResult>>

vars == <<serviceVars, faults, copyVars, git>>

\* The number of anomalies the run at hand may meet.
FaultBudget ==
    IF cfg.runOnce /\ cfg.runLauncherEnabled THEN MaxFaultsOnce ELSE MaxFaults

\* ------------------------------------------------------------ configuration
\* CONFIG.endpoints: the channels, processed in this order.
Channels == <<"release", "stage">>

NumChannels == Len(Channels)

ChannelIdx == 1..NumChannels

Cycles == 1..MaxCycles

\* json.version of a well-formed manifest.
KnownVersion == [defined |-> TRUE, text |-> <<"v1">>]

\* json.version of the manifests an endpoint can serve: a version string, the
\* empty string, no version field at all (undefined).
ServedVersions ==
    {KnownVersion, [defined |-> TRUE, text |-> <<>>], [defined |-> FALSE, text |-> <<>>]}

\* `${version}` in a template literal: undefined is written "undefined".
TemplateText(v) == IF v.defined THEN v.text ELSE <<"undefined">>

\* `${version}` for the version the channel's launcher.json advertises
\* (unchanged over the run).
ManifestVersion(ch) == TemplateText(jsonVersion[ch])

\* json.download_url flattened to its <platform>-<arch> entries, in entry order.
ManifestPlatforms(ch) == IF ch = "stage" THEN <<"windows-amd64", "linux-amd64">>
                                         ELSE <<"linux-amd64">>

\* A digest string: the value it denotes and whether its hex letters are upper case.
Digest(v, up) == [val |-> v, upper |-> up]

\* build.sha256 as the manifest writes it: windows entries in upper-case hex.
DeclaredSha(plat) == Digest(1, plat = "windows-amd64")

\* String.prototype.toLowerCase on a hex digest.
ToLowerCase(d) == [d EXCEPT !.upper = FALSE]

\* calculateSHA256: hash.digest('hex').toLowerCase() of bytes whose digest value is v.
CalculateSHA256(v) == ToLowerCase(Digest(v, FALSE))

\* What one downloadFile call can leave at filePath: 0 = nothing (HTTP status
\* other than 200 or a transport error, the file is unlinked), otherwise bytes
\* with that digest value (1 = the value the manifest declares).
DownloadOutcomes == {0, 1, 2}

\* ------------------------------------------------------------------- names
\* fullVersion = `${version}-${channel}`
FullVersion(version, channel) == version \o <<"-", channel>>

\* new Date().toISOString().replace(/[:.]/g,'-').slice(0,-5): one token per second.
Timestamp(t) == ToString(t)

\* versionDirName = `${fullVersion}-${downloadTimestamp}`
VersionDirName(fv, t) == fv \o <<"-", Timestamp(t)>>

\* `${fullVersion}-runtime-${timestamp}`
RuntimeDirName(fv, t) == fv \o <<"-runtime-", Timestamp(t)>>

\* String.prototype.includes
Includes(s, sub) == \E i \in 0..(Len(s) - Len(sub)) : SubSeq(s, i + 1, i + Len(sub)) = sub

\* path.relative(CONFIG.gitRepoPath, <file under versions/>)
VersionFilePath(dir, sub, file) ==
    <<"versions", "/">> \o dir \o (IF sub = "" THEN <<>> ELSE <<"/", sub>>) \o <<"/", file>>

\* `extracted/${fullVersion}`
ExtractedPath(fv) == <<"extracted", "/">> \o fv

\* path.relative(gitRepoPath, runtimeArchiveDir)
RuntimePath(name) == <<"runtime-archives", "/">> \o name

\* getAllFiles(versionDir), each made relative to the repository root.
GetAllFiles(dir) ==
    {VersionFilePath(a.dir, a.plat, "artifact.zip") : a \in {x \in artifacts : x.dir = dir}}
    \cup {VersionFilePath(m.dir, m.sub, m.file) : m \in {x \in metaFiles : x.dir = dir}}

\* ------------------------------------------------------------------- paths
\* A path string is a token sequence in which the token "/" is the separator.
\* CONFIG.gitRepoPath, already resolved: the directory /repo.
RepoRoot == <<<<"repo">>>>

RECURSIVE SplitPath(_)
\* String.prototype.split('/'): the segments of a path string.
SplitPath(s) ==
    IF s = <<>> THEN << <<>> >>
    ELSE LET rest == SplitPath(Tail(s)) IN
         IF Head(s) = "/" THEN << <<>> >> \o rest
         ELSE << <<Head(s)>> \o Head(rest) >> \o Tail(rest)

RECURSIVE Normalize(_, _)
\* path.resolve's normalisation: drop "" and ".", let ".." pop one directory.
Normalize(stack, segs) ==
    IF segs = <<>> THEN stack
    ELSE LET h == Head(segs) IN
         IF h = <<>> \/ h = <<".">> THEN Normalize(stack, Tail(segs))
         ELSE IF h = <<"..">>
              THEN Normalize(IF stack = <<>> THEN <<>>
                             ELSE SubSeq(stack, 1, Len(stack) - 1), Tail(segs))
              ELSE Normalize(Append(stack, h), Tail(segs))

\* path.isAbsolute (posix)
IsAbsolute(file) == file # <<>> /\ file[1] = "/"

\* Where the operating system finds `file` when the working directory is the
\* repository root (git add runs with cwd: CONFIG.gitRepoPath).
Resolve(file) ==
    IF IsAbsolute(file) THEN Normalize(<<>>, SplitPath(file))
    ELSE Normalize(RepoRoot, SplitPath(file))

\* Length of the longest common prefix of two segment lists.
CommonPrefix(a, b) ==
    LET m == IF Len(a) < Len(b) THEN Len(a) ELSE Len(b)
        agree == {k \in 0..m : \A i \in 1..k : a[i] = b[i]}
    IN CHOOSE k \in agree : \A j \in agree : j <= k

\* path.relative(from, to) for absolute operands, as a segment list.
Relative(from, to) ==
    LET k == CommonPrefix(from, to) IN
    [i \in 1..(Len(from) - k) |-> <<"..">>] \o SubSeq(to, k + 1, Len(to))

\* String.prototype.startsWith('..') on a path string.
StartsWithDotDot(file) == file # <<>> /\ file[1] = ".."

\* relative.startsWith('..') on the segment list path.relative returned.
RelStartsWithDotDot(rel) == rel # <<>> /\ StartsWithDotDot(rel[1])

\* !file || file.trim() === ''
IsBlank(file) == \A i \in 1..Len(file) : file[i] = " "

\* The predicate filterSafeGitPaths keeps a path by.
IsSafeGitPath(file) ==
    /\ ~IsBlank(file)
    /\ ~StartsWithDotDot(file)
    /\ IsAbsolute(file) =>
          ~RelStartsWithDotDot(Relative(RepoRoot, Normalize(<<>>, SplitPath(file))))

\* filterSafeGitPaths(files) on an array.
FilterSafeGitPaths(files) == SelectSeq(files, IsSafeGitPath)

\* The resolved location is inside (or is) the repository root.
InsideRepo(file) ==
    LET r == Resolve(file) IN
    Len(r) >= Len(RepoRoot) /\ SubSeq(r, 1, Len(RepoRoot)) = RepoRoot

\* The number of steps of the environment, given by whether each went well,
\* that did not.
Anomalies(oks) == Cardinality({i \in 1..Len(oks) : ~oks[i]})

\* ------------------------------------------------------- processEndpoint
\* Locals of a cycle that has not started.  again remembers that unzip was run
\* on a destination that already held unzipped files.
IdleCycle ==
    [pc |-> "idle", ch |-> 1, results |-> <<>>, vdir |-> <<>>, count |-> 0,
     filesToAdd |-> {}, calls |-> <<>>, again |-> FALSE]

\* A child process that was never launched.  deadAtProbe remembers whether the
\* process had ended when the liveness probe ran; aliveAtReturn whether it was
\* running when extractAndArchiveInstallers returned; aliveAtCheck whether it
\* was running when the 2 s timer after SIGTERM ended, sigkill whether SIGKILL
\* was then delivered to it; copyFailed whether copyDirectoryWithFilters threw.
NoHarvest ==
    [launched |-> FALSE, alive |-> FALSE, killed |-> FALSE, probe |-> "none",
     deadAtProbe |-> FALSE, aliveAtCheck |-> FALSE, sigkill |-> FALSE,
     copyFailed |-> FALSE,
     waited |-> FALSE, probed |-> FALSE, archive |-> <<>>,
     returned |-> FALSE, aliveAtReturn |-> FALSE]

\* A fetch that asks a second time when the first request fails.
FetchJSONRetry(ok) == [ok |-> ok, requests |-> IF ok THEN 1 ELSE 2]

\* fetchJSON(url): one protocol.get; the promise resolves with the parsed
\* body or rejects (status other than 200, connection error, JSON.parse).
FetchJSON(ok) == [ok |-> ok, requests |-> 1]

\* { downloaded: false, error: error.message }; fetches: the requests made
\* for the manifest.
ErrorResult ==
    [downloaded |-> FALSE, version |-> <<>>, error |-> TRUE, count |-> 0,
     extractedFiles |-> {}, usedDir |-> <<>>, existed |-> FALSE, reExtracted |-> FALSE,
     fetches |-> FetchJSON(FALSE).requests]

\* { downloaded: false, version: fullVersion }; usedDir remembers the
\* directory under versions/ the call worked in, existed whether it was found
\* there (versionExists).
SkipResult(fv, dir, found) ==
    [downloaded |-> FALSE, version |-> fv, error |-> FALSE, count |-> 0,
     extractedFiles |-> {}, usedDir |-> dir, existed |-> found, reExtracted |-> FALSE,
     fetches |-> FetchJSON(TRUE).requests]

\* { downloaded: true, version: fullVersion, count, extractedFiles }; again:
\* unzip was run on a destination that already held unzipped files.
DownloadedResult(fv, n, files, dir, found, again) ==
    [downloaded |-> TRUE, version |-> fv, error |-> FALSE, count |-> n,
     extractedFiles |-> files, usedDir |-> dir, existed |-> found, reExtracted |-> again,
     fetches |-> FetchJSON(TRUE).requests]

\* processEndpoint returns r: the for-loop of checkForNewVersions goes on with
\* the next endpoint, or with the commit loop after the last one.
EndpointReturns(cy, r) ==
    LET base == [cy EXCEPT !.results = Append(cy.results, r), !.vdir = <<>>,
                           !.count = 0, !.filesToAdd = {}, !.again = FALSE]
    IN IF cy.ch < NumChannels
       THEN [base EXCEPT !.ch = cy.ch + 1, !.pc = "fetch"]
       ELSE [base EXCEPT !.pc = "publish"]

\* An error thrown inside processEndpoint escapes checkForNewVersions.
OnEndpointErrorRethrow(cy) == [cy EXCEPT !.pc = "crashed"]

\* The catch block of processEndpoint: log, return { downloaded: false, error }.
OnEndpointError(cy) == EndpointReturns(cy, ErrorResult)

\* fullVersion of the endpoint the cycle is processing.
CurFullVersion(cy) == FullVersion(ManifestVersion(Channels[cy.ch]), Channels[cy.ch])

\* runtimeDirs.some(dir => dir.includes(fullVersion))
HasRuntimeForThisVersion(fv) == \E d \in runtimeDirs : Includes(d, fv)

\* needsProcessing for a version whose directory exists.
NeedsProcessing(fv) ==
    IF fv \in extractedDirs
    THEN cfg.runLauncherEnabled /\ ~HasRuntimeForThisVersion(fv)
    ELSE TRUE

\* launcher.json, download-metadata.json, download-timestamp.txt, download-date.txt
VersionMetadata(dir) ==
    {[dir |-> dir, sub |-> "", file |-> f] :
        f \in {"launcher.json", "download-metadata.json",
               "download-timestamp.txt", "download-date.txt"}}

\* url.txt and sha256.txt of one platform directory
PlatformMetadata(dir, plat) ==
    {[dir |-> dir, sub |-> plat, file |-> f] : f \in {"url.txt", "sha256.txt"}}

\* A comparison that accepts every file.
HashMatchesAlways(fileHash, declared) == TRUE

\* fileHash === build.sha256.toLowerCase()
HashMatches(fileHash, declared) == fileHash = ToLowerCase(declared)

\* A download loop that a failed download ends.
AttemptedUntilFailure(plats, outs) ==
    {i \in 1..Len(plats) : \A j \in 1..(i - 1) : outs[j] # 0}

\* The download_url entries downloadFile is called for: the try/catch lies
\* inside the loop, so a rejected download is logged and the loop goes on.
Attempted(plats, outs) == 1..Len(plats)

\* The download_url entries whose file passes "Verify SHA256" when downloadFile
\* leaves outs[i] for entry i.
VerifiedEntries(plats, outs) ==
    {i \in Attempted(plats, outs) :
        outs[i] # 0 /\ HashMatches(CalculateSHA256(outs[i]), DeclaredSha(plats[i]))}

\* The artifact files the download loop leaves in versionDir: a file whose hash
\* differs is unlinked.
DownloadedArtifacts(dir, plats, outs) ==
    {[dir |-> dir, plat |-> plats[i], val |-> outs[i]] : i \in VerifiedEntries(plats, outs)}

\* url.txt / sha256.txt are written for every entry whose download did not throw.
DownloadedMetadata(dir, plats, outs) ==
    UNION {PlatformMetadata(dir, plats[i]) : i \in {j \in Attempted(plats, outs) : outs[j] # 0}}

\* A mkdir that clears what the parent directory held.
MkdirFresh(dirs, d) == {d}

\* fs.mkdir(dir, { recursive: true }) on the set of directories of the parent:
\* the directory is there afterwards, an existing one is left as it is.
Mkdir(dirs, d) == dirs \cup {d}

\* ------------------------------------------- extractAndArchiveInstallers
\* What extractAndArchiveInstallers hands back to processEndpoint, which returns
\* it as a downloaded result (count: 0 on the catch-up path, where the version
\* directory existed; at least 1 after a download).
ExtractReturns(cy) ==
    EndpointReturns(cy, DownloadedResult(CurFullVersion(cy), cy.count, cy.filesToAdd, cy.vdir,
                                         cy.count = 0, cy.again))

\* toLowerCase of one token.
LowerToken(t) ==
    CASE t = "PREFERENCES" -> "preferences"
      [] t = "Preferences" -> "preferences"
      [] t = "User" -> "user"
      [] t = "Cookie" -> "cookie"
      [] t = "Login" -> "login"
      [] t = "Data" -> "data"
      [] t = "Web" -> "web"
      [] t = "History" -> "history"
      [] t = "Account" -> "account"
      [] t = "Auth" -> "auth"
      [] t = "Session" -> "session"
      [] t = "Launcher" -> "launcher"
      [] OTHER -> t

\* String.prototype.toLowerCase on a name or path.
ToLowerName(n) == [i \in 1..Len(n) |-> LowerToken(n[i])]

\* ------------------------------------------------- findLauncherExecutable
\* The entry names the extracted Linux archive can hold, in readdir order.
ZipNames == << <<"bin">>, <<"Launcher", "-", "helper">>, <<"hytale-", "launcher">> >>

ZipNameIdx == 1..Len(ZipNames)

\* A directory of the extracted archive holds at most ZipEntries entries.
ZipEntries == 2

\* What a directory holds under each name: nothing, a file or a directory.
ZipListings ==
    {k \in [ZipNameIdx -> {"none", "file", "dir"}] :
        Cardinality({i \in ZipNameIdx : k[i] # "none"}) <= ZipEntries}

\* The extracted archive: the listing of the extraction directory and the
\* listing of each directory in it; the directories below those are empty.
ZipTrees == [top : ZipListings, inner : ZipListings]

EmptyListing == [i \in ZipNameIdx |-> "none"]

\* An archive without any file named like a launcher, and one with two.
ServiceZipTrees ==
    {[top |-> EmptyListing, inner |-> EmptyListing],
     [top |-> [EmptyListing EXCEPT ![2] = "file", ![3] = "file"], inner |-> EmptyListing]}

\* fs.readdir(dir, { withFileTypes: true }) at the relative path rel.
ZipReaddir(tree, rel) ==
    LET listing == IF rel = <<>> THEN tree.top
                   ELSE IF Len(rel) = 1 THEN tree.inner
                   ELSE EmptyListing
        present == SelectSeq([i \in ZipNameIdx |-> i], LAMBDA i : listing[i] # "none")
    IN [j \in 1..Len(present) |->
          [name |-> ZipNames[present[j]], dir |-> listing[present[j]] = "dir"]]

\* possibleNames
PossibleNames == {<<"hytale-", "launcher">>, <<"launcher">>}

\* possibleNames.some(n => nameLower.includes(n.toLowerCase()))
MatchesPossibleNames(name) ==
    \E n \in PossibleNames : Includes(ToLowerName(name), ToLowerName(n))

\* null, as a path.
NoPath == <<>>

RECURSIVE SearchDir(_, _, _)
\* searchDir(dir) from entry j of the listing on: a matching file is returned,
\* a directory is searched and its find returned, else the next entry.
SearchDir(tree, rel, j) ==
    LET entries == ZipReaddir(tree, rel)
    IN IF j > Len(entries) THEN NoPath
       ELSE LET entry == entries[j]
                fullPath == Append(rel, entry.name)
            IN IF ~entry.dir /\ MatchesPossibleNames(entry.name) THEN fullPath
               ELSE IF entry.dir
                    THEN LET found == SearchDir(tree, fullPath, 1)
                         IN IF found # NoPath THEN found ELSE SearchDir(tree, rel, j + 1)
                    ELSE SearchDir(tree, rel, j + 1)

\* findLauncherExecutable(extractDir)
FindLauncherExecutable(tree) == SearchDir(tree, <<>>, 1)

\* launcherName of the linux platform (src/archive.js).
LauncherName == <<"hytale-", "launcher">>

RECURSIVE FindLauncher(_, _), FindLauncherLoop(_, _, _)
\* The second loop of findLauncher (src/archive.js) from entry j on: a file
\* whose lower-cased name includes 'launcher', or the find of a directory.
FindLauncherLoop(tree, rel, j) ==
    LET files == ZipReaddir(tree, rel)
    IN IF j > Len(files) THEN NoPath
       ELSE LET file == files[j]
                fullPath == Append(rel, file.name)
            IN IF ~file.dir /\ Includes(ToLowerName(file.name), <<"launcher">>) THEN fullPath
               ELSE IF file.dir
                    THEN LET found == FindLauncher(tree, fullPath)
                         IN IF found # NoPath THEN found ELSE FindLauncherLoop(tree, rel, j + 1)
                    ELSE FindLauncherLoop(tree, rel, j + 1)

\* findLauncher(dir, preferredName) (src/archive.js): a file of the directory
\* with exactly the preferred name first, then the second loop.
FindLauncher(tree, rel) ==
    LET files == ZipReaddir(tree, rel)
    IN IF \E j \in 1..Len(files) : ~files[j].dir /\ files[j].name = LauncherName
       THEN Append(rel, LauncherName)
       ELSE FindLauncherLoop(tree, rel, 1)

\* extractAndArchiveInstallers(versionDir, fullVersion) up to the exec of the
\* launcher: mkdir extracted/<fullVersion>, find the Linux ZIP, unzip -q,
\* findLauncherExecutable, chmod, exec.  cy holds vdir and count; arts is the
\* content of versions/ at the call.
ExtractStage(c, cy, arts, unzipOk, spent) ==
    LET fv == CurFullVersion(cy)
        hasZip == \E a \in arts : a.dir = cy.vdir /\ a.plat = "linux-amd64"
        withDir == [cy EXCEPT !.filesToAdd = {ExtractedPath(fv)},
                              !.again = hasZip /\ fv \in unzipped]
        launches == hasZip /\ unzipOk /\ FindLauncherExecutable(zipTree) # NoPath
                             /\ cfg.runLauncherEnabled
    IN /\ hasZip \/ unzipOk
       /\ faults' = faults + spent + Anomalies(<<unzipOk>>)
       /\ faults' <= FaultBudget
       /\ extractedDirs' = Mkdir(extractedDirs, fv)
       /\ unzipped' = IF hasZip /\ unzipOk THEN unzipped \cup {fv} ELSE unzipped
       /\ manifests' = IF hasZip /\ unzipOk /\ ~launches THEN manifests \cup {fv} ELSE manifests
       /\ harvests' = IF launches
                      THEN [harvests EXCEPT ![c][cy.ch] =
                              [NoHarvest EXCEPT !.launched = TRUE, !.alive = TRUE]]
                      ELSE harvests
       /\ cyc' = [cyc EXCEPT ![c] = IF launches THEN [withDir EXCEPT !.pc = "grace"]
                                    ELSE ExtractReturns(withDir)]

\* A resolution that looks for the timestamped directory only.
ResolveVersionDirStampedOnly(dirs, fv, t) ==
    [dir |-> VersionDirName(fv, t), exists |-> VersionDirName(fv, t) \in dirs]

\* versionDir / versionExists of processEndpoint for fullVersion fv at second t,
\* dirs being the directories under versions/: fs.access on the name without
\* timestamp first, then on the timestamped name; the timestamped name is the
\* one for a new version.
ResolveVersionDir(dirs, fv, t) ==
    [dir |-> IF fv \in dirs THEN fv ELSE VersionDirName(fv, t),
     exists |-> fv \in dirs \/ VersionDirName(fv, t) \in dirs]

\* processEndpoint(endpoint) from fetchJSON to its return, or to the point
\* where extractAndArchiveInstallers has launched the launcher.
ProcessEndpoint(c) ==
    /\ ~exited
    /\ cyc[c].pc = "fetch"
    /\ LET cy == cyc[c]
           plats == ManifestPlatforms(Channels[cy.ch])
           fv == CurFullVersion(cy)
           versionExists == ResolveVersionDir(versionDirs, fv, now).exists
           versionDir == ResolveVersionDir(versionDirs, fv, now).dir
       IN \/ \* fetchJSON rejects (status, connection, JSON.parse)
             /\ faults < FaultBudget
             /\ faults' = faults + 1
             /\ cyc' = [cyc EXCEPT ![c] = OnEndpointError(cy)]
             /\ UNCHANGED <<versionDirs, artifacts, metaFiles, verifiedLog, extractedDirs,
                            unzipped, manifests, harvests>>
          \/ \* the version directory exists and nothing is left to do
             /\ versionExists
             /\ ~(cfg.extractEnabled /\ NeedsProcessing(fv))
             /\ cyc' = [cyc EXCEPT ![c] = EndpointReturns(cy, SkipResult(fv, versionDir, TRUE))]
             /\ UNCHANGED <<faults, versionDirs, artifacts, metaFiles, verifiedLog, extractedDirs,
                            unzipped, manifests, harvests>>
          \/ \* the version directory exists: catch-up extraction / harvest
             /\ versionExists
             /\ cfg.extractEnabled /\ NeedsProcessing(fv)
             /\ \E unzipOk \in BOOLEAN :
                  ExtractStage(c, [cy EXCEPT !.vdir = versionDir, !.count = 0], artifacts, unzipOk, 0)
             /\ UNCHANGED <<versionDirs, artifacts, metaFiles, verifiedLog>>
          \/ \* a new version: mkdir, the download loop, the metadata files
             /\ ~versionExists
             /\ \E outs \in [1..Len(plats) -> DownloadOutcomes] :
                  LET got == DownloadedArtifacts(versionDir, plats, outs)
                      n == Cardinality(VerifiedEntries(plats, outs))
                      cy2 == [cy EXCEPT !.vdir = versionDir, !.count = n]
                      bad == Cardinality({i \in 1..Len(plats) : outs[i] # 1})
                  IN /\ bad <= FaultBudget - faults
                     /\ versionDirs' = Mkdir(versionDirs, versionDir)
                     /\ artifacts' = artifacts \cup got
                     /\ verifiedLog' = verifiedLog \cup got
                     /\ metaFiles' = metaFiles \cup DownloadedMetadata(versionDir, plats, outs)
                                               \cup VersionMetadata(versionDir)
                     /\ IF n > 0 /\ cfg.extractEnabled
                        THEN \E unzipOk \in BOOLEAN :
                               ExtractStage(c, cy2, artifacts \cup got, unzipOk, bad)
                        ELSE /\ cyc' = [cyc EXCEPT ![c] =
                                          IF n > 0
                                          THEN EndpointReturns(cy2, DownloadedResult(fv, n, {}, versionDir,
                                                                                     FALSE, FALSE))
                                          ELSE EndpointReturns(cy2, SkipResult(fv, versionDir, FALSE))]
                             /\ faults' = faults + bad
                             /\ UNCHANGED <<extractedDirs, unzipped, manifests, harvests>>
    /\ UNCHANGED <<copyVars, git>>
    /\ UNCHANGED <<cfg, jsonVersion, now, runtimeDirs, zipTree, intervalOn, exited, exitStatus>>

\* The harvest record of the endpoint the cycle is processing.
CurHarvest(c) == harvests[c][cyc[c].ch]

\* The launched process ends on its own (crash or normal exit) while
\* extractAndArchiveInstallers is still running.
ChildExits(c, ch) ==
    /\ harvests[c][ch].alive
    /\ harvests[c][ch].launched
    /\ ~harvests[c][ch].returned
    /\ faults < FaultBudget
    /\ faults' = faults + 1
    /\ harvests' = [harvests EXCEPT ![c][ch].alive = FALSE]
    /\ UNCHANGED <<copyVars, git>>
    /\ UNCHANGED <<cfg, jsonVersion, now, versionDirs, artifacts, metaFiles, extractedDirs, unzipped,
                   manifests, runtimeDirs, cyc, verifiedLog, zipTree, intervalOn,
                   exited, exitStatus>>

\* A probe that never notices a dead process.
ProbeAliveAlways(h) == TRUE

\* process.kill(launcherProcess.pid, 0) does not throw.
ProbeAlive(h) == h.alive

\* The 2 s timer after exec, then the liveness probe.
Grace(c) ==
    /\ ~exited
    /\ cyc[c].pc = "grace"
    /\ LET cy == cyc[c]
           h == CurHarvest(c)
       IN IF ProbeAlive(h)
          THEN /\ harvests' = [harvests EXCEPT ![c][cy.ch] =
                                 [h EXCEPT !.probe = "alive", !.deadAtProbe = ~h.alive]]
               /\ cyc' = [cyc EXCEPT ![c] = [cy EXCEPT !.pc = "wait"]]
          ELSE /\ harvests' = [harvests EXCEPT ![c][cy.ch] =
                                 [h EXCEPT !.probe = "crashed", !.deadAtProbe = ~h.alive,
                                           !.returned = TRUE,
                                           !.aliveAtReturn = h.alive]]
               /\ cyc' = [cyc EXCEPT ![c] = ExtractReturns(cy)]
    /\ UNCHANGED <<copyVars, git>>
    /\ UNCHANGED <<cfg, jsonVersion, now, versionDirs, artifacts, metaFiles, extractedDirs, unzipped,
                   manifests, runtimeDirs, verifiedLog, zipTree, intervalOn,
                   exited, exitStatus, faults>>

\* possibleDataDirs has four entries.
NumDataDirs == 4

\* Which of possibleDataDirs exist when archiveLinuxRuntimeState looks.
DataDirPatterns == [1..NumDataDirs -> BOOLEAN]

RECURSIVE ProbeFrom(_, _)
\* The for-loop over possibleDataDirs from entry k on: fs.access, and break
\* at the first entry that exists (0: the loop ends with foundDataDir null).
ProbeFrom(exists, k) ==
    IF k > NumDataDirs THEN 0
    ELSE IF exists[k] THEN k
    ELSE ProbeFrom(exists, k + 1)

\* foundDataDir, as the index of the entry of possibleDataDirs (0: null).
FoundDataDir(exists) == ProbeFrom(exists, 1)

\* The launcherWaitTime timer (the clock moves on while it runs),
\* archiveLinuxRuntimeState, then SIGTERM.
HarvestWait(c) ==
    /\ ~exited
    /\ cyc[c].pc = "wait"
    /\ LET cy == cyc[c]
           h == CurHarvest(c)
           name == RuntimeDirName(CurFullVersion(cy), now + 1)
       IN \E exists \in DataDirPatterns, copyOk \in BOOLEAN, obeys \in BOOLEAN :
          LET found == FoundDataDir(exists) # 0 IN
            /\ ~found => copyOk
            /\ ~h.alive => obeys
            /\ faults' = faults + Anomalies(<<found, copyOk, obeys>>)
            /\ faults' <= FaultBudget
            /\ runtimeDirs' = IF found THEN Mkdir(runtimeDirs, name) ELSE runtimeDirs
            /\ now' = now + 1
            /\ harvests' = [harvests EXCEPT ![c][cy.ch] =
                              [h EXCEPT !.waited = TRUE, !.probed = TRUE,
                                        !.archive = IF found THEN name ELSE <<>>,
                                        !.copyFailed = found /\ ~copyOk,
                                        !.killed = h.alive,
                                        !.alive = h.alive /\ ~obeys]]
            /\ cyc' = [cyc EXCEPT ![c] =
                         [cy EXCEPT !.pc = "killwait",
                                    !.filesToAdd = cy.filesToAdd \cup
                                        (IF found /\ copyOk THEN {RuntimePath(name)} ELSE {})]]
    /\ UNCHANGED <<copyVars, git>>
    /\ UNCHANGED <<cfg, jsonVersion, versionDirs, artifacts, metaFiles, extractedDirs, unzipped,
                   manifests, verifiedLog, zipTree, intervalOn, exited, exitStatus>>

\* if (!launcherProcess.killed)
ShouldForceKill(h) == ~h.killed

\* The 2 s timer after SIGTERM, the SIGKILL decision, extraction-manifest.json.
KillWait(c) ==
    /\ ~exited
    /\ cyc[c].pc = "killwait"
    /\ LET cy == cyc[c]
           h == CurHarvest(c)
           stillAlive == IF ShouldForceKill(h) THEN FALSE ELSE h.alive
       IN /\ harvests' = [harvests EXCEPT ![c][cy.ch] =
                            [h EXCEPT !.alive = stillAlive, !.returned = TRUE,
                                      !.aliveAtCheck = h.alive,
                                      !.sigkill = ShouldForceKill(h) /\ h.alive,
                                      !.aliveAtReturn = stillAlive]]
          /\ manifests' = manifests \cup {CurFullVersion(cy)}
          /\ cyc' = [cyc EXCEPT ![c] = ExtractReturns(cy)]
    /\ UNCHANGED <<copyVars, git>>
    /\ UNCHANGED <<cfg, jsonVersion, now, versionDirs, artifacts, metaFiles, extractedDirs, unzipped,
                   runtimeDirs, verifiedLog, zipTree, intervalOn,
                   exited, exitStatus, faults>>

\* ------------------------------------------------------------ git publisher
\* The repository as the git commands see it.  index and tree hold snapshots
\* <<path, content>>; made counts the git commit commands that succeeded, local
\* the commits in the local history, remote the commits on the remote.
\* What one gitAutoCommit call did is kept in last.
NoLast == [committed |-> FALSE, empty |-> FALSE, pushCalled |-> FALSE, pushed |-> FALSE]

\* What the environment decides while one gitAutoCommit call runs: whether
\* git add, git commit and git push succeed, and whether the message of a
\* failed git commit contains the words 'nothing to commit' (exec builds the
\* message from the command line and the standard error output; git writes
\* its status text in the language of the locale).
GitOutcomes == [addOk : BOOLEAN, commitOk : BOOLEAN, says : BOOLEAN, pushOk : BOOLEAN]

\* The content a path has on disk now: extracted/<fullVersion> changes with
\* the unzip and with extraction-manifest.json, other paths are written once.
ContentOf(file) ==
    IF \E i \in ChannelIdx :
          file = ExtractedPath(FullVersion(ManifestVersion(Channels[i]), Channels[i]))
    THEN LET i == CHOOSE i \in ChannelIdx :
                    file = ExtractedPath(FullVersion(ManifestVersion(Channels[i]), Channels[i]))
             fv == FullVersion(ManifestVersion(Channels[i]), Channels[i])
         IN <<fv \in unzipped, fv \in manifests>>
    ELSE <<>>

\* What git add would record for the paths of an array.
Snapshot(files) == {<<files[i], ContentOf(files[i])>> : i \in 1..Len(files)}

\* gitAdd(files) with git enabled: filterSafeGitPaths, the two warnings, the
\* git add command (ok: it succeeds).  threw: the error is thrown on.
AddStep(g, files, ok) ==
    LET safeFiles == FilterSafeGitPaths(files)
        dropped == IF Len(safeFiles) < Len(files) THEN {"filtered"} ELSE {}
    IN IF Len(safeFiles) = 0
       THEN [g EXCEPT !.log = @ \cup {"no safe files"}]
       ELSE IF ok
       THEN [g EXCEPT !.staged = safeFiles,
                      !.index = @ \cup (Snapshot(safeFiles) \ g.tree),
                      !.log = @ \cup dropped \cup {"added"}]
       ELSE [g EXCEPT !.staged = safeFiles, !.threw = TRUE, !.failures = @ + 1,
                      !.log = @ \cup dropped \cup {"add failed"}]

\* gitCommit(message): git commit exits with an error when the index holds no
\* change; the catch block tells that case by the text of the message.
CommitStep(g, out) ==
    IF g.index = {}
    THEN IF out.says
         THEN [g EXCEPT !.last.empty = TRUE, !.log = @ \cup {"nothing to commit"}]
         ELSE [g EXCEPT !.last.empty = TRUE, !.threw = TRUE,
                        !.log = @ \cup {"commit failed"}]
    ELSE IF out.commitOk
         THEN [g EXCEPT !.tree = @ \cup g.index, !.index = {},
                        !.made = @ + 1, !.local = @ + 1,
                        !.last.committed = TRUE, !.log = @ \cup {"committed"}]
         ELSE [g EXCEPT !.threw = TRUE, !.failures = @ + 1,
                        !.log = @ \cup {"commit failed"}]

\* A failed push that also takes the commit back.
OnPushErrorReset(g, c) ==
    [g EXCEPT !.threw = TRUE, !.failures = @ + 1, !.pushFailedAt = c,
              !.local = @ - 1, !.log = @ \cup {"push failed"}]

\* The catch block of gitPush: log the warning, throw the error on.
OnPushError(g, c) ==
    [g EXCEPT !.threw = TRUE, !.failures = @ + 1, !.pushFailedAt = c,
              !.log = @ \cup {"push failed"}]

\* gitPush(), called in cycle c.
PushStep(g, out, c) ==
    LET called == [g EXCEPT !.last.pushCalled = TRUE]
    IN IF out.pushOk
       THEN [called EXCEPT !.remote = g.local, !.last.pushed = TRUE,
                           !.log = @ \cup {"pushed"}]
       ELSE OnPushError(called, c)

\* The catch block of gitAutoCommit: log the warning, do not throw.
AutoCommitCaught(g) == [g EXCEPT !.threw = FALSE, !.log = @ \cup {"automation failed"}]

\* gitAutoCommit(files, ...) called in cycle c (0: outside a cycle).
AutoCommit(g, files, out, c) ==
    IF ~g.enabled THEN [g EXCEPT !.last = NoLast, !.log = @ \cup {"git disabled"}]
    ELSE LET a == AddStep([g EXCEPT !.last = NoLast, !.threw = FALSE], files, out.addOk)
             m == CommitStep(a, out)
             p == PushStep(m, out, c)
         IN IF a.threw THEN AutoCommitCaught(a)
            ELSE IF m.threw THEN AutoCommitCaught(m)
            ELSE IF ~m.last.committed THEN m
            ELSE IF p.threw THEN AutoCommitCaught(p)
            ELSE p

\* The body of the commit loop for one result once getAllFiles has returned:
\* relativeFiles is filtered, and gitAutoCommit is called if a path is left.
CommitLoopBody(g, relativeFiles, out, c) ==
    LET safe == FilterSafeGitPaths(relativeFiles)
    IN IF Len(safe) > 0 THEN AutoCommit(g, safe, out, c)
       ELSE [g EXCEPT !.last = NoLast, !.log = @ \cup {"no files to commit"}]

\* ---------------------------------------------------- checkForNewVersions
\* The path set the commit loop builds for one downloaded result: the files of
\* versions/<result.version> and the extracted files, filtered.
CommitFiles(r) == {f \in GetAllFiles(r.version) \cup r.extractedFiles : IsSafeGitPath(f)}

\* gitAutoCommit is reached for result r: getAllFiles did not throw (the
\* directory versions/<result.version> exists) and a path is left.
CommitReached(r) == r.downloaded /\ r.version \in versionDirs /\ CommitFiles(r) # {}

RECURSIVE SetToSeq(_)
\* The array files.map(...).concat(result.extractedFiles) of a set of paths.
SetToSeq(S) ==
    IF S = {} THEN <<>>
    ELSE LET x == CHOOSE x \in S : TRUE IN <<x>> \o SetToSeq(S \ {x})

\* relativeFiles of result r: the files of versions/<result.version> followed
\* by result.extractedFiles.
RelativeFiles(r) == SetToSeq(GetAllFiles(r.version) \cup r.extractedFiles)

RECURSIVE PublishFrom(_, _, _, _, _, _)
\* The commit loop from result i on, in cycle c, where rels[i] is the
\* relativeFiles array of result i: a result that is not downloaded is passed
\* over; getAllFiles throws when versions/<result.version> does not exist and
\* the catch block of the loop logs it.
PublishFrom(g, results, rels, outs, i, c) ==
    IF i > Len(results) THEN g
    ELSE LET r == results[i]
             after == IF ~r.downloaded THEN g
                      ELSE IF r.version \notin versionDirs
                      THEN [g EXCEPT !.log = @ \cup {"failed to commit"}]
                      ELSE CommitLoopBody(g, rels[i], outs[i], c)
         IN PublishFrom(after, results, rels, outs, i + 1, c)

\* The commit loop of checkForNewVersions over the downloaded results.
Publish(c) ==
    /\ ~exited
    /\ cyc[c].pc = "publish"
    /\ LET cy == cyc[c]
           reached == SelectSeq([i \in 1..Len(cy.results) |-> i],
                                LAMBDA i : CommitReached(cy.results[i]))
       IN /\ cyc' = [cyc EXCEPT ![c] =
                       [cy EXCEPT !.calls = [k \in 1..Len(reached) |->
                                               [ch |-> reached[k],
                                                files |-> CommitFiles(cy.results[reached[k]])]],
                                  !.pc = "return"]]
          /\ \E outs \in [{i \in 1..Len(cy.results) : CommitReached(cy.results[i])} -> GitOutcomes] :
             \E rels \in {[i \in 1..Len(cy.results) |-> RelativeFiles(cy.results[i])]} :
             \E after \in {PublishFrom(git, cy.results, rels, outs, 1, c)} :
               /\ after.failures - git.failures <= FaultBudget - faults
               /\ git' = after
               /\ faults' = faults + (after.failures - git.failures)
    /\ UNCHANGED copyVars
    /\ UNCHANGED <<cfg, jsonVersion, now, versionDirs, artifacts, metaFiles, extractedDirs, unzipped,
                   manifests, runtimeDirs, harvests, verifiedLog, zipTree,
                   intervalOn, exited, exitStatus>>

\* ------------------------------------------------------------------- main
\* An exit status that tells whether a channel failed.
RunOnceExitStatusByFailures(results) ==
    IF \E i \in 1..Len(results) : results[i].error THEN 1 ELSE 0

\* if (CONFIG.runOnce) process.exit(0), after the results of the initial check.
RunOnceExitStatus(results) == 0

\* checkForNewVersions returns and its locals are gone (a process it left
\* running stays); after the initial check main either exits (--once: the
\* results are what the process ended with) or installs the interval.
CycleReturns(c) ==
    /\ ~exited
    /\ cyc[c].pc = "return"
    /\ cyc' = [cyc EXCEPT ![c] = IF c = 1 /\ cfg.runOnce
                                  THEN [cyc[c] EXCEPT !.pc = "done"]
                                  ELSE [IdleCycle EXCEPT !.pc = "done"]]
    /\ harvests' = [harvests EXCEPT ![c] =
                      [ch \in ChannelIdx |-> [NoHarvest EXCEPT !.alive = harvests[c][ch].alive]]]
    /\ exited' = IF c = 1 /\ cfg.runOnce THEN TRUE ELSE exited
    /\ exitStatus' = IF c = 1 /\ cfg.runOnce THEN RunOnceExitStatus(cyc[c].results)
                                            ELSE exitStatus
    /\ intervalOn' = IF c = 1 /\ ~cfg.runOnce THEN TRUE ELSE intervalOn
    /\ UNCHANGED <<copyVars, git>>
    /\ UNCHANGED <<cfg, jsonVersion, now, versionDirs, artifacts, metaFiles, extractedDirs, unzipped,
                   manifests, runtimeDirs, verifiedLog, zipTree, faults>>

\* The setInterval callback fires, one interval after the previous start, and
\* calls checkForNewVersions; the clock shows a later second.
Tick(c) ==
    /\ ~exited
    /\ intervalOn
    /\ c > 1
    /\ cyc[c].pc = "idle"
    /\ cyc[c - 1].pc # "idle"
    /\ cyc' = [cyc EXCEPT ![c].pc = "fetch"]
    /\ now' = now + 1
    /\ UNCHANGED <<copyVars, git>>
    /\ UNCHANGED <<cfg, jsonVersion, versionDirs, artifacts, metaFiles, extractedDirs, unzipped,
                   manifests, runtimeDirs, harvests, verifiedLog, zipTree,
                   intervalOn, exited, exitStatus, faults>>

\* ------------------------------------------------ copyDirectoryWithFilters
\* The entry names a source directory can hold, in readdir order.
CopyNames ==
    << <<"settings", ".", "json">>, <<"PREFERENCES">>, <<"my", "User", "data">>,
       <<"Cookie", "s">>, <<"data", ".", "bin">> >>

NameIdx == 1..Len(CopyNames)

\* What a directory holds under a name: nothing, a file or a directory.
Kinds == {"none", "file", "dir"}

\* The contents a directory can have: at most MaxEntries entries.
Listings == {k \in [NameIdx -> Kinds] : Cardinality({i \in NameIdx : k[i] # "none"}) <= MaxEntries}

\* The listing of the source directory at relative path rel (a sequence of
\* names): the top listing, below it the inner listing, nothing at MaxDepth.
ListingAt(rel) ==
    IF rel = <<>> THEN srcTree.top
    ELSE IF Len(rel) < MaxDepth THEN srcTree.inner
    ELSE [i \in NameIdx |-> "none"]

\* fs.readdir(src, { withFileTypes: true })
Readdir(rel) ==
    LET present == SelectSeq([i \in NameIdx |-> i], LAMBDA i : ListingAt(rel)[i] # "none")
    IN [j \in 1..Len(present) |->
          [name |-> CopyNames[present[j]], dir |-> ListingAt(rel)[present[j]] = "dir"]]

RECURSIVE JoinPath(_)
\* path.join of a list of names: the names with "/" between them.
JoinPath(names) ==
    IF names = <<>> THEN <<>>
    ELSE IF Len(names) = 1 THEN names[1]
    ELSE names[1] \o <<"/">> \o JoinPath(Tail(names))

\* String.prototype.endsWith
EndsWith(s, suffix) ==
    Len(s) >= Len(suffix) /\ SubSeq(s, Len(s) - Len(suffix) + 1, Len(s)) = suffix

\* excludePatterns: each regular expression by the text it looks for and
\* whether it is anchored at the end ($); all carry the i flag.
ExcludePatterns ==
    {[frag |-> <<"account", ".", "dat">>, atEnd |-> TRUE],
     [frag |-> <<"account", ".">>, atEnd |-> FALSE],
     [frag |-> <<"account">>, atEnd |-> FALSE],
     [frag |-> <<"auth">>, atEnd |-> FALSE],
     [frag |-> <<"token">>, atEnd |-> FALSE],
     [frag |-> <<"session">>, atEnd |-> FALSE],
     [frag |-> <<"cookie">>, atEnd |-> FALSE],
     [frag |-> <<"password">>, atEnd |-> FALSE],
     [frag |-> <<"login">>, atEnd |-> FALSE],
     [frag |-> <<"credential">>, atEnd |-> FALSE],
     [frag |-> <<"profile">>, atEnd |-> FALSE],
     [frag |-> <<"user">>, atEnd |-> FALSE],
     [frag |-> <<"cookie", "s">>, atEnd |-> TRUE],
     [frag |-> <<"login", " ", "data">>, atEnd |-> TRUE],
     [frag |-> <<"web", " ", "data">>, atEnd |-> TRUE],
     [frag |-> <<"history">>, atEnd |-> TRUE]}

\* excludeDirs
ExcludeDirs ==
    {<<"Cookie", "s">>, <<"Login", " ", "Data">>, <<"Web", " ", "Data">>, <<"History">>,
     <<"Preferences">>, <<"Account">>, <<"Auth">>, <<"Session">>}

\* pattern.test(str) for a pattern with the i flag.
PatternTest(pattern, str) ==
    IF pattern.atEnd THEN EndsWith(ToLowerName(str), pattern.frag)
    ELSE Includes(ToLowerName(str), pattern.frag)

\* An excludeDirs test that matches nothing.
InExcludeDirsNever(name) == FALSE

\* excludeDirs.some(dir => entry.name.toLowerCase() === dir.toLowerCase())
InExcludeDirs(name) == \E dir \in ExcludeDirs : ToLowerName(name) = ToLowerName(dir)

\* shouldExclude for the entry `name` of the directory at relativePath rel.
ShouldExclude(name, rel) ==
    \/ InExcludeDirs(name)
    \/ \E pattern \in ExcludePatterns :
          PatternTest(pattern, name) \/ PatternTest(pattern, JoinPath(Append(rel, name)))

\* The --exclude patterns of the rsync command (src/archive.js) that are
\* globs *text*: the text they look for, letter case kept.
RsyncGlobs == {<<"account">>, <<"token">>, <<"cookie">>, <<"auth">>, <<"session">>, <<"login">>}

\* The --exclude patterns that are plain names.
RsyncNames == {<<"Cookie", "s">>, <<"Login", " ", "Data">>, <<"Web", " ", "Data">>}

\* rsync leaves out an entry whose name (the last component of its path)
\* matches an --exclude pattern; the match keeps letter case.
RsyncExcludes(name) ==
    \/ name \in RsyncNames
    \/ \E glob \in RsyncGlobs : Includes(name, glob)

RECURSIVE RsyncCopies(_)
\* What rsync -a puts under appdata/ from the source directory at rel: every
\* entry it does not leave out, and for a directory what it copies from it.
RsyncCopies(rel) ==
    UNION {IF RsyncExcludes(e.name) THEN {}
           ELSE {Append(rel, e.name)} \cup
                (IF e.dir THEN RsyncCopies(Append(rel, e.name)) ELSE {})
           : e \in {Readdir(rel)[j] : j \in 1..Len(Readdir(rel))}}

\* The locals of one copyDirectoryWithFilters call after its mkdir and readdir.
CopyFrame(rel) == [rel |-> rel, entries |-> Readdir(rel), copied |-> 0, excluded |-> 0]

\* No call has returned yet.  failed remembers the entries whose copy threw.
NoCopyResult == [done |-> FALSE, copied |-> 0, excluded |-> 0, failed |-> {}]

\* An exclusion that counts the entries of an excluded directory as well.
SkipEntryPerDescendant(f, e) ==
    [f EXCEPT !.entries = Tail(f.entries),
              !.excluded = f.excluded + 1 +
                  (IF e.dir THEN Len(Readdir(Append(f.rel, e.name))) ELSE 0)]

\* if (shouldExclude) { excludedCount++; continue; } for entry e of call f.
SkipEntry(f, e) == [f EXCEPT !.entries = Tail(f.entries), !.excluded = f.excluded + 1]

\* A catch block that gives up the rest of the directory.
FailEntryAbort(f, e) == [f EXCEPT !.entries = <<>>, !.excluded = f.excluded + 1]

\* catch (error) { excludedCount++; } for entry e of call f; the loop goes on.
FailEntry(f, e) == [f EXCEPT !.entries = Tail(f.entries), !.excluded = f.excluded + 1]

\* One pass of the for-loop of the innermost running call: the entry is
\* excluded, or copied as a file, or a recursive call is started for it.
CopyEntry ==
    /\ frames # <<>>
    /\ frames[Len(frames)].entries # <<>>
    /\ LET top == Len(frames)
           f == frames[top]
           e == Head(f.entries)
           path == Append(f.rel, e.name)
           counted == [f EXCEPT !.entries = Tail(f.entries), !.copied = f.copied + 1]
           entered == [f EXCEPT !.entries = Tail(f.entries)]
       IN IF ShouldExclude(e.name, f.rel)
          THEN /\ frames' = [frames EXCEPT ![top] = SkipEntry(f, e)]
               /\ UNCHANGED <<destTree, faults, copyResult>>
          ELSE \/ \* fs.copyFile succeeds, or the recursive call gets past mkdir and readdir
                  /\ frames' = IF e.dir
                               THEN Append([frames EXCEPT ![top] = entered], CopyFrame(path))
                               ELSE [frames EXCEPT ![top] = counted]
                  /\ destTree' = destTree \cup {path}
                  /\ UNCHANGED <<faults, copyResult>>
               \/ \* fs.copyFile throws, or the recursive call throws in mkdir or readdir
                  /\ faults < MaxFaults
                  /\ faults' = faults + 1
                  /\ frames' = [frames EXCEPT ![top] = FailEntry(f, e)]
                  /\ copyResult' = [copyResult EXCEPT !.failed = @ \cup {path}]
                  /\ \E made \in BOOLEAN :
                       /\ made => e.dir
                       /\ destTree' = IF made THEN destTree \cup {path} ELSE destTree
    /\ UNCHANGED <<serviceVars, srcTree, git>>

\* The innermost running call has no entry left and returns its counts, which
\* the calling pass adds to its own.
CopyReturn ==
    /\ frames # <<>>
    /\ frames[Len(frames)].entries = <<>>
    /\ LET top == Len(frames)
           f == frames[top]
       IN IF top = 1
          THEN /\ frames' = <<>>
               /\ copyResult' = [copyResult EXCEPT !.done = TRUE, !.copied = f.copied,
                                                   !.excluded = f.excluded]
          ELSE /\ frames' = [SubSeq(frames, 1, top - 1) EXCEPT
                               ![top - 1].copied = @ + f.copied,
                               ![top - 1].excluded = @ + f.excluded]
               /\ UNCHANGED copyResult
    /\ UNCHANGED <<serviceVars, faults, srcTree, destTree, git>>

\* No copy is running.
CopyIdle ==
    /\ srcTree = [top |-> [i \in NameIdx |-> "none"], inner |-> [i \in NameIdx |-> "none"]]
    /\ frames = <<>>
    /\ destTree = {}
    /\ copyResult = NoCopyResult

\* ------------------------------------------------------------------ gitAdd
\* The tokens of the paths handed to gitAdd.
PathTokens == {"/", "..", "a", "repo", " "}

\* The path strings of at most MaxPathLen tokens.
GitPaths == UNION {[1..n -> PathTokens] : n \in 0..MaxPathLen}

\* A path of the kind the commit loop builds for a file under versions/.
VersionsPath == VersionFilePath(<<"a">>, "", "launcher.json")

\* The arrays gitAdd is called with: one path, alone or next to VersionsPath.
GitInputs == {<<file>> : file \in GitPaths} \cup {<<file, VersionsPath>> : file \in GitPaths}

\* gitAdd(files) called directly, the whole call: the CONFIG.gitEnabled test,
\* filterSafeGitPaths, the two warnings, and the git add command, which can fail.
GitAdd ==
    /\ ~git.done
    /\ IF ~git.enabled
       THEN git' = [git EXCEPT !.done = TRUE, !.route = "add"]
       ELSE \E ok \in BOOLEAN :
              git' = [AddStep(git, git.files, ok) EXCEPT !.done = TRUE, !.route = "add"]
    /\ UNCHANGED <<serviceVars, faults, copyVars>>

\* gitAutoCommit(files, ...) called directly, the whole call.
GitAutoCommit ==
    /\ ~git.done
    /\ \E out \in GitOutcomes :
         git' = [AutoCommit(git, git.files, out, 0) EXCEPT !.done = TRUE, !.route = "auto"]
    /\ UNCHANGED <<serviceVars, faults, copyVars>>

\* One pass of the commit loop of checkForNewVersions whose relativeFiles are
\* the given paths: the route checkForNewVersions -> gitAutoCommit -> gitAdd.
CommitLoop ==
    /\ ~git.done
    /\ \E out \in GitOutcomes :
         git' = [CommitLoopBody(git, git.files, out, 0) EXCEPT !.done = TRUE, !.route = "loop"]
    /\ UNCHANGED <<serviceVars, faults, copyVars>>

\* The publisher before any call: git automation off, an empty history.
NoGit ==
    [enabled |-> FALSE, files |-> <<>>, route |-> "none", staged |-> <<>>, log |-> {},
     done |-> TRUE, threw |-> FALSE, index |-> {}, tree |-> {}, made |-> 0, local |-> 0,
     remote |-> 0, failures |-> 0, pushFailedAt |-> 0, last |-> NoLast]

\* No publisher call is pending.
GitIdle == git = NoGit

\* The publisher when main starts: CONFIG.gitEnabled as the environment sets it.
GitReady == \E en \in BOOLEAN : git = [NoGit EXCEPT !.enabled = en]

\* A versions/<fullVersion> directory in the old, un-timestamped format, as an
\* earlier run of the service left it for the release channel.
LegacyDir == FullVersion(TemplateText(KnownVersion), "release")

LegacyArtifacts == {[dir |-> LegacyDir, plat |-> "linux-amd64", val |-> 1]}

\* The state of the service when main starts its initial check.
ServiceInitFrom(served, trees, runtimes) ==
    /\ cfg \in [runOnce : BOOLEAN, extractEnabled : BOOLEAN, runLauncherEnabled : BOOLEAN]
    /\ jsonVersion \in [{Channels[i] : i \in ChannelIdx} -> served]
    /\ zipTree \in trees
    /\ now = 0
    /\ \E legacy \in BOOLEAN :
         /\ versionDirs = IF legacy THEN {LegacyDir} ELSE {}
         /\ artifacts = IF legacy THEN LegacyArtifacts ELSE {}
         /\ verifiedLog = IF legacy THEN LegacyArtifacts ELSE {}
         /\ metaFiles = IF legacy
                        THEN VersionMetadata(LegacyDir) \cup PlatformMetadata(LegacyDir, "linux-amd64")
                        ELSE {}
    /\ extractedDirs = {}
    /\ unzipped = {}
    /\ manifests = {}
    /\ runtimeDirs \in runtimes
    /\ cyc = [c \in Cycles |-> IF c = 1 THEN [IdleCycle EXCEPT !.pc = "fetch"] ELSE IdleCycle]
    /\ harvests = [c \in Cycles |-> [ch \in ChannelIdx |-> NoHarvest]]
    /\ intervalOn = FALSE
    /\ exited = FALSE
    /\ exitStatus = -1
    /\ faults = 0

\* The service starts; no copy is being looked at.
\* The service against endpoints that serve well-formed manifests.
\* The same, with runtime-archives/ empty.
ServiceInitWith(served, trees) == ServiceInitFrom(served, trees, {{}})

\* The same, with one of the two archives of ServiceZipTrees.
ServiceInitServing(served) == ServiceInitWith(served, ServiceZipTrees)

ServiceInit == ServiceInitServing({KnownVersion})

Init == ServiceInit /\ CopyIdle /\ GitReady

Next ==
    \/ \E c \in Cycles : ProcessEndpoint(c)
    \/ \E c \in Cycles, ch \in ChannelIdx : ChildExits(c, ch)
    \/ \E c \in Cycles : Grace(c)
    \/ \E c \in Cycles : HarvestWait(c)
    \/ \E c \in Cycles : KillWait(c)
    \/ \E c \in Cycles : Publish(c)
    \/ \E c \in Cycles : CycleReturns(c)
    \/ \E c \in Cycles : Tick(c)

Spec == Init /\ [][Next]_vars

\* main() under --once: the initial checkForNewVersions is the only call and
\* no interval is installed.
InitOnce == Init /\ cfg.runOnce

NextOnce ==
    \/ \E c \in Cycles : ProcessEndpoint(c)
    \/ \E c \in Cycles, ch \in ChannelIdx : ChildExits(c, ch)
    \/ \E c \in Cycles : Grace(c)
    \/ \E c \in Cycles : HarvestWait(c)
    \/ \E c \in Cycles : KillWait(c)
    \/ \E c \in Cycles : Publish(c)
    \/ \E c \in Cycles : CycleReturns(c)

\* The single-shot service against endpoints that serve any of ServedVersions.
InitManifest == ServiceInitServing(ServedVersions) /\ cfg.runOnce /\ CopyIdle /\ GitReady

SpecManifest == InitManifest /\ [][NextOnce]_vars

\* A single-shot run with extraction and launch switched on, whose Linux
\* archive unpacks to any tree of ZipTrees.
InitFind ==
    /\ ServiceInitWith({KnownVersion}, ZipTrees)
    /\ cfg = [runOnce |-> TRUE, extractEnabled |-> TRUE, runLauncherEnabled |-> TRUE]
    /\ CopyIdle
    /\ GitReady

SpecFind == InitFind /\ [][NextOnce]_vars

\* A version the release endpoint served at an earlier time, whose text ends
\* with the text of the version served now, and the runtime archive the
\* service made of it then.
EarlierVersion == [defined |-> TRUE, text |-> <<"x", "v1">>]

EarlierRuntimeDir == RuntimeDirName(FullVersion(TemplateText(EarlierVersion), "release"), 0)

\* The service with extraction and launch switched on, started where
\* runtime-archives/ holds the archive of the earlier version.
InitEarlier ==
    /\ ServiceInitFrom({KnownVersion}, ServiceZipTrees, {{EarlierRuntimeDir}})
    /\ cfg = [runOnce |-> FALSE, extractEnabled |-> TRUE, runLauncherEnabled |-> TRUE]
    /\ CopyIdle
    /\ GitReady

SpecEarlier == InitEarlier /\ [][Next]_vars

\* The service with the interval, extraction switched on and launcher
\* execution switched off.  The event loop runs every timer that is due and
\* every continuation of an awaited call, so a step that can be taken is taken.
InitPush ==
    /\ Init
    /\ cfg = [runOnce |-> FALSE, extractEnabled |-> TRUE, runLauncherEnabled |-> FALSE]

NextPush ==
    \/ \E c \in Cycles : ProcessEndpoint(c)
    \/ \E c \in Cycles : Publish(c)
    \/ \E c \in Cycles : CycleReturns(c)
    \/ \E c \in Cycles : Tick(c)

SpecPush == InitPush /\ [][NextPush]_vars /\ WF_vars(NextPush)

\* The single-shot service under the scheduling of the event loop: a timer
\* that is due fires and an awaited call that can settle does.
SpecOnce == InitOnce /\ [][NextOnce]_vars /\ WF_vars(NextOnce)

\* The service at rest: --once, extraction off, an empty archive.
ServiceQuiet ==
    /\ ServiceInit
    /\ cfg = [runOnce |-> TRUE, extractEnabled |-> FALSE, runLauncherEnabled |-> FALSE]
    /\ zipTree = [top |-> EmptyListing, inner |-> EmptyListing]
    /\ versionDirs = {}

\* copyDirectoryWithFilters(src, dest) has been called on some source tree and
\* has made dest and read src.
InitCopy ==
    /\ ServiceQuiet
    /\ GitIdle
    /\ srcTree \in [top : Listings, inner : Listings]
    /\ frames = <<CopyFrame(<<>>)>>
    /\ destTree = {}
    /\ copyResult = NoCopyResult

NextCopy == CopyEntry \/ CopyReturn

SpecCopy == InitCopy /\ [][NextCopy]_vars

\* The publisher is about to be called with some array of paths, whose
\* contents are new or (same) are those of the last committed tree.
InitGit ==
    /\ ServiceQuiet
    /\ CopyIdle
    /\ \E en \in BOOLEAN, files \in GitInputs, same \in BOOLEAN :
         git = [NoGit EXCEPT !.enabled = en, !.files = files, !.done = FALSE,
                             !.tree = IF same THEN Snapshot(FilterSafeGitPaths(files)) ELSE {}]

NextGit == GitAdd \/ GitAutoCommit \/ CommitLoop

SpecGit == InitGit /\ [][NextGit]_vars

\* ------------------------------------- force processing (src/unnamed/part_001)
\* The un-timestamped directory name the script works in.
ForceVersionDir(fv) == fv

\* One pass of the endpoint loop of main: fetchJSON, then
\* processVersion(version, channel, json).  fetchOk, out and unzipOk are what
\* the manifest request, the download and unzip do (out as in
\* DownloadOutcomes; the script compares no checksum).
ProcessVersion(c, fetchOk, out, unzipOk) ==
    LET cy == cyc[c]
        fv == CurFullVersion(cy)
        dir == ForceVersionDir(fv)
        hadDir == dir \in versionDirs
        zip == [dir |-> dir, plat |-> "linux-amd64", val |-> out]
        hasZip == \E a \in artifacts : a.dir = dir /\ a.plat = "linux-amd64"
        downloads == ~hasZip
        gotZip == hasZip \/ out # 0
        extracts == gotZip /\ fv \notin unzipped /\ fv \notin manifests
        complete == gotZip /\ (extracts => unzipOk)
    IN /\ ~downloads => out = 1
       /\ ~(fetchOk /\ extracts) => unzipOk
       /\ ~fetchOk => out = 1
       /\ IF ~fetchOk
          THEN /\ cyc' = [cyc EXCEPT ![c] = EndpointReturns(cy, ErrorResult)]
               /\ UNCHANGED <<versionDirs, artifacts, metaFiles, extractedDirs, unzipped,
                              manifests>>
          ELSE /\ versionDirs' = Mkdir(versionDirs, dir)
               /\ artifacts' = IF downloads /\ out # 0 THEN artifacts \cup {zip} ELSE artifacts
               /\ metaFiles' = metaFiles
                     \cup (IF downloads /\ out # 0 THEN PlatformMetadata(dir, "linux-amd64") ELSE {})
                     \cup (IF complete
                           THEN {[dir |-> dir, sub |-> "", file |-> "launcher.json"]} ELSE {})
               /\ extractedDirs' = IF gotZip THEN Mkdir(extractedDirs, fv) ELSE extractedDirs
               /\ unzipped' = IF extracts /\ unzipOk THEN unzipped \cup {fv} ELSE unzipped
               /\ manifests' = IF extracts /\ unzipOk THEN manifests \cup {fv} ELSE manifests
               /\ cyc' = [cyc EXCEPT ![c] =
                            EndpointReturns(cy, IF complete
                                                THEN DownloadedResult(fv, IF downloads THEN 1 ELSE 0,
                                                                      {ExtractedPath(fv)}, dir,
                                                                      hadDir, FALSE)
                                                ELSE SkipResult(fv, dir, hadDir))]

\* The endpoint loop of the script in run c.
ForceProcess(c) ==
    /\ cyc[c].pc = "fetch"
    /\ \E fetchOk \in BOOLEAN, out \in DownloadOutcomes, unzipOk \in BOOLEAN :
         /\ faults + Anomalies(<<fetchOk, out = 1, unzipOk>>) <= MaxFaults
         /\ faults' = faults + Anomalies(<<fetchOk, out = 1, unzipOk>>)
         /\ ProcessVersion(c, fetchOk, out, unzipOk)
    /\ UNCHANGED <<copyVars, git>>
    /\ UNCHANGED <<cfg, jsonVersion, now, runtimeDirs, harvests, verifiedLog, zipTree,
                   intervalOn, exited, exitStatus>>

\* "Commit and push" of the script: git add versions/ extracted/, git status
\* --short, and when it lists a change git commit and git push; an error of
\* any of them is logged.
ForceCommit(c) ==
    /\ cyc[c].pc = "publish"
    /\ LET paths == UNION {GetAllFiles(d) : d \in versionDirs}
                      \cup {ExtractedPath(fv) : fv \in extractedDirs}
           snap == {<<f, ContentOf(f)>> : f \in paths}
       IN \E commitOk \in BOOLEAN, pushOk \in BOOLEAN :
            /\ (snap \subseteq git.tree) => (commitOk /\ pushOk)
            /\ ~commitOk => pushOk
            /\ faults + Anomalies(<<commitOk, pushOk>>) <= MaxFaults
            /\ faults' = faults + Anomalies(<<commitOk, pushOk>>)
            /\ git' = IF snap \subseteq git.tree
                      THEN [git EXCEPT !.log = @ \cup {"no changes to commit"}]
                      ELSE IF ~commitOk
                      THEN [git EXCEPT !.index = snap, !.log = @ \cup {"git error"}]
                      ELSE [git EXCEPT !.index = {},
                                       !.tree = {t \in @ : \A n \in snap : n[1] # t[1]} \cup snap,
                                       !.made = @ + 1,
                                       !.local = @ + 1,
                                       !.remote = IF pushOk THEN git.local + 1 ELSE @,
                                       !.log = IF pushOk THEN @ ELSE @ \cup {"git error"}]
    /\ cyc' = [cyc EXCEPT ![c].pc = "done"]
    /\ UNCHANGED copyVars
    /\ UNCHANGED <<cfg, jsonVersion, now, versionDirs, artifacts, metaFiles, extractedDirs, unzipped,
                   manifests, runtimeDirs, harvests, verifiedLog, zipTree,
                   intervalOn, exited, exitStatus>>

\* The script is run again after a run has ended.
ForceRerun(c) ==
    /\ c > 1
    /\ cyc[c].pc = "idle"
    /\ cyc[c - 1].pc = "done"
    /\ cyc' = [cyc EXCEPT ![c].pc = "fetch"]
    /\ now' = now + 1
    /\ UNCHANGED <<copyVars, git, faults>>
    /\ UNCHANGED <<cfg, jsonVersion, versionDirs, artifacts, metaFiles, extractedDirs, unzipped,
                   manifests, runtimeDirs, harvests, verifiedLog, zipTree,
                   intervalOn, exited, exitStatus>>

\* The script reads none of the option flags of the service; they are held
\* at the values of the environment it is run in.
InitForce ==
    /\ Init
    /\ cfg = [runOnce |-> TRUE, extractEnabled |-> TRUE, runLauncherEnabled |-> FALSE]

NextForce ==
    \/ \E c \in Cycles : ForceProcess(c)
    \/ \E c \in Cycles : ForceCommit(c)
    \/ \E c \in Cycles : ForceRerun(c)

SpecForce == InitForce /\ [][NextForce]_vars

\* ------------------------------------------------------------ properties
\* String.prototype.startsWith on token sequences.
StartsWith(s, prefix) == Len(s) >= Len(prefix) /\ SubSeq(s, 1, Len(prefix)) = prefix

\* The cycles that have started and not returned.
ActiveCycles == {c \in Cycles : cyc[c].pc \notin {"idle", "done"}}

\* The directories under versions/ that hold fullVersion fv: the legacy name
\* and the timestamped names.
DirsOfVersion(fv) ==
    {d \in versionDirs : d = fv \/ (StartsWith(d, fv \o <<"-">>) /\ Len(d) = Len(fv) + 2)}

\* The directories under runtime-archives/ made for fullVersion fv.
RuntimeDirsOfVersion(fv) == {d \in runtimeDirs : StartsWith(d, fv \o <<"-runtime-">>)}

\* The digest of the artifact's bytes is, letter case aside, the declared one.
DigestAsDeclared(a) == a.val = DeclaredSha(a.plat).val

\* C1: running the pipeline again for a channel whose manifest still shows the
\* same version downloads nothing again and leaves exactly one directory of
\* that fullVersion under versions/, whatever time lies between the runs.
C1_IdempotentDownload ==
    \A i \in ChannelIdx :
        LET fv == FullVersion(ManifestVersion(Channels[i]), Channels[i])
        IN /\ Cardinality(DirsOfVersion(fv)) <= 1
           /\ \A a, b \in artifacts :
                (a.plat = b.plat /\ a.dir \in DirsOfVersion(fv) /\ b.dir \in DirsOfVersion(fv))
                    => a.dir = b.dir

SensitiveNames ==
    {<<"Cookie", "s">>, <<"Login", " ", "Data">>, <<"Web", " ", "Data">>, <<"History">>,
     <<"Preferences">>, <<"Account">>, <<"Auth">>, <<"Session">>}

SensitiveFragments ==
    {<<"account">>, <<"auth">>, <<"token">>, <<"session">>, <<"cookie">>, <<"password">>,
     <<"login">>, <<"credential">>, <<"profile">>, <<"user">>}

\* The name equals a sensitive name or holds a sensitive fragment, letter case aside.
IsSensitive(str) ==
     \/ \E n \in SensitiveNames : ToLowerName(str) = ToLowerName(n)
     \/ \E frag \in SensitiveFragments : Includes(ToLowerName(str), frag)

\* C3: whatever the source tree, the destination of copyDirectoryWithFilters
\* holds no entry whose name equals a denylisted name or whose name or relative
\* path contains a sensitive fragment (case-insensitively), and nothing from
\* beneath an excluded directory.
C3_NoSensitiveCopied ==
    \A path \in destTree :
        /\ \A k \in 1..Len(path) : ~IsSensitive(path[k])
        /\ ~IsSensitive(JoinPath(path))
        /\ \A k \in 1..(Len(path) - 1) : SubSeq(path, 1, k) \in destTree

\* The call has returned for a tree with a denylisted directory that has
\* entries, next to a directory whose entries were copied.
C3_Witness ==
    /\ copyResult.done
    /\ \E i \in NameIdx : CopyNames[i] = <<"PREFERENCES">> /\ srcTree.top[i] = "dir"
    /\ \E i \in NameIdx : srcTree.inner[i] # "none"
    /\ \E path \in destTree : Len(path) = 2
    /\ copyResult.excluded >= 1

\* C4: at most one checkForNewVersions cycle is active at any time; a tick of
\* the interval never starts a cycle while the previous one is suspended.
C4_SingleActiveCycle == Cardinality(ActiveCycles) <= 1

\* C5: once the launcher was launched, it is no longer running when
\* extractAndArchiveInstallers returns, on every path after the launch.
C5_ChildStoppedAtReturn ==
    \A c \in Cycles, i \in ChannelIdx :
        (harvests[c][i].launched /\ harvests[c][i].returned) => ~harvests[c][i].aliveAtReturn

C7_OneRuntimeArchive ==
    \A i \in ChannelIdx :
        Cardinality(RuntimeDirsOfVersion(FullVersion(ManifestVersion(Channels[i]), Channels[i]))) <= 1

\* C8: in every cycle gitAutoCommit is called exactly once for each channel
\* whose version was downloaded or caught up, with the files of the version
\* directory the cycle used and the extracted and runtime-archive paths.
C8_PublishedOncePerChannel ==
    \A c \in Cycles :
        cyc[c].pc = "return" =>
            \A i \in 1..Len(cyc[c].results) :
                LET r == cyc[c].results[i]
                    mine == {k \in 1..Len(cyc[c].calls) : cyc[c].calls[k].ch = i}
                IN r.downloaded =>
                      /\ Cardinality(mine) = 1
                      /\ \A k \in mine :
                           (GetAllFiles(r.usedDir) \cup r.extractedFiles) \subseteq cyc[c].calls[k].files

C10_StagedInsideRepo ==
    \A i \in 1..Len(git.staged) : InsideRepo(git.staged[i])

\* The path "../outside" (a stands for any name).
Outside == <<"..", "/", "a">>

\* C11: when the publisher is handed paths that include "../outside", that
\* path is not staged, a log line says that an unsafe path was discarded, and
\* the safe paths of the set are staged; on a direct call and on the route
\* checkForNewVersions -> gitAutoCommit -> gitAdd alike.
C11_TraversalGuard ==
    (git.done /\ git.enabled /\ \E i \in 1..Len(git.files) : git.files[i] = Outside) =>
        /\ \A i \in 1..Len(git.staged) : git.staged[i] # Outside
        /\ git.log \cap {"filtered", "no safe files"} # {}
        /\ "add failed" \notin git.log => git.staged = FilterSafeGitPaths(git.files)

\* C12: when nothing is staged after the given paths were added (their
\* contents are those of the last committed tree), the publisher makes no
\* commit, does not invoke git push, and treats the case as a normal outcome:
\* no failure is logged.
C12_NoOpPublish ==
    (git.done /\ git.enabled /\ git.route \in {"auto", "loop"} /\ git.last.empty) =>
        /\ ~git.last.committed
        /\ ~git.last.pushCalled
        /\ git.made = 0
        /\ git.log \cap {"commit failed", "automation failed"} = {}

\* C13: when the commit succeeds and the push fails, the failure is logged as
\* a warning, the local commit stays (no commit is ever taken back), the error
\* does not leave the publisher, and the cycle goes on to its return.
C13_PushFailureTolerated ==
    /\ git.local = git.made
    /\ ~git.threw
    /\ git.pushFailedAt # 0 =>
          /\ "push failed" \in git.log
          /\ cyc[git.pushFailedAt].pc \in {"return", "done"}
    /\ \A c \in Cycles : cyc[c].pc # "crashed"

\* The push failed in the first cycle, its commit is in the local history and
\* not on the remote, and the next cycle has run to its return.
C13_Witness ==
    /\ git.pushFailedAt = 1
    /\ git.local = 1
    /\ git.remote = 0
    /\ cyc[1].pc = "done"
    /\ cyc[2].pc = "return"

\* The stage of fullVersion fv as the directories show it: 0 UNKNOWN,
\* 1 DOWNLOADED, 2 EXTRACTED, 3 HARVESTED.
Stage(fv) ==
    IF RuntimeDirsOfVersion(fv) # {} THEN 3
    ELSE IF fv \in unzipped THEN 2
    ELSE IF DirsOfVersion(fv) # {} THEN 1
    ELSE 0

\* C14: over any sequence of cycles the stage of a (version, channel) never
\* decreases, and no step deletes or empties a version directory, an
\* extracted directory or a runtime-archive directory.
C14_NoRollback ==
    [][/\ \A i \in ChannelIdx :
             Stage(FullVersion(ManifestVersion(Channels[i]), Channels[i]))'
                 >= Stage(FullVersion(ManifestVersion(Channels[i]), Channels[i]))
       /\ versionDirs \subseteq versionDirs'
       /\ extractedDirs \subseteq extractedDirs'
       /\ unzipped \subseteq unzipped'
       /\ runtimeDirs \subseteq runtimeDirs']_vars

\* A version was harvested in one cycle and a later cycle has run to its return.
C14_Witness ==
    /\ \E i \in ChannelIdx : Stage(FullVersion(ManifestVersion(Channels[i]), Channels[i])) = 3
    /\ cyc[1].pc = "done"
    /\ cyc[2].pc = "return"

\* C15: with extraction and launcher execution disabled, processing the
\* release manifest (version V, one linux-amd64 artifact whose bytes match)
\* leaves the artifact at exactly versions/V-release/linux-amd64/<file> with
\* the declared digest, and nothing is made under extracted/ or
\* runtime-archives/, in that cycle or a later one.
C15_PlainDownloadLayout ==
    (~cfg.extractEnabled /\ ~cfg.runLauncherEnabled) =>
        LET fv == FullVersion(ManifestVersion("release"), "release")
        IN /\ \A a \in artifacts :
                a.dir \in DirsOfVersion(fv) =>
                    a.dir = fv /\ a.plat = "linux-amd64" /\ DigestAsDeclared(a)
           /\ extractedDirs = {}
           /\ runtimeDirs = {}

\* C16: when the extraction destination of a version already holds a
\* non-metadata file, a later run over that version (a catch-up run that only
\* needs the harvest included) does not invoke the archive extraction again.
C16_ExtractionNotRepeated ==
    \A c \in Cycles :
        /\ ~cyc[c].again
        /\ \A i \in 1..Len(cyc[c].results) : ~cyc[c].results[i].reExtracted

\* C17: a failed extraction does not make the version count as extracted: a
\* later cycle does not pass over an existing version whose Linux archive is
\* on disk and was never unzipped, but attempts the extraction again, with
\* launcher execution enabled or not.
C17_FailedExtractionRetried ==
    \A c \in Cycles : \A i \in 1..Len(cyc[c].results) :
        LET r == cyc[c].results[i]
        IN (/\ cfg.extractEnabled
            /\ ~r.downloaded /\ ~r.error /\ r.existed
            /\ \E a \in artifacts : a.dir = r.usedDir /\ a.plat = "linux-amd64")
               => r.version \in unzipped

ExtractionPending(fv) == fv \notin unzipped

\* Harvest is pending for fv: no directory under runtime-archives/ has a name
\* that begins with <fv>-linux-amd64-runtime-.
HarvestPending(fv) ==
    ~\E d \in runtimeDirs : StartsWith(d, fv \o <<"-", "linux-amd64", "-runtime-">>)

\* C19: for a version whose directory exists, the catch-up decision of
\* processEndpoint asks for processing exactly when extraction is pending
\* (no non-metadata file under extracted/<fullVersion>) or harvest is pending
\* (no runtime-archives directory prefixed <fullVersion>-<platform>-runtime-),
\* and reports the version fully processed exactly when neither is.
C19_CatchUpDecision ==
    \A ch \in ChannelIdx :
      LET fv == FullVersion(ManifestVersion(Channels[ch]), Channels[ch])
      IN (cfg.extractEnabled /\ ResolveVersionDir(versionDirs, fv, now).exists)
           => (NeedsProcessing(fv) <=> (ExtractionPending(fv) \/ HarvestPending(fv)))

\* The directory and the flag a step of processEndpoint in cycle c resolved:
\* those of the result it returned, or of the call that is waiting for the
\* launcher.
C20_Resolved(c) ==
    LET after == cyc[c]
        last == after.results[Len(after.results)]
    IN IF after.pc = "grace"
       THEN [dir |-> after.vdir, exists |-> after.count = 0]
       ELSE [dir |-> last.usedDir, exists |-> last.existed]

NoVersion(i) == ~jsonVersion[Channels[i]].defined \/ jsonVersion[Channels[i]].text = <<>>

\* C21: a manifest whose version field is missing or empty never makes the
\* service create a version directory, download, extract or harvest for that
\* channel: no directory under versions/, extracted/ or runtime-archives/ is
\* named after that channel's fullVersion.
C21_NoVersionNoWork ==
    \A i \in ChannelIdx :
      LET fv == FullVersion(ManifestVersion(Channels[i]), Channels[i])
      IN NoVersion(i) =>
           /\ \A d \in versionDirs \cup runtimeDirs : ~StartsWith(d, fv)
           /\ fv \notin extractedDirs
           /\ \A a \in artifacts : ~StartsWith(a.dir, fv)

\* C22: when the 2 s timer after SIGTERM ends, SIGKILL is sent to the child
\* exactly when the child is still running then; a child that ignores
\* SIGTERM is force-killed.
C22_ForceKillIffAlive ==
    \A c \in Cycles, i \in ChannelIdx :
        LET h == harvests[c][i]
        IN (h.waited /\ h.returned) => (h.sigkill <=> h.aliveAtCheck)

\* C23: when a step of the harvest throws (the launcher is gone at the
\* liveness probe, the copy of the data directory fails), the channel's
\* result is still a downloaded one without a runtime-archive path, no error
\* leaves processEndpoint, and the commit loop calls gitAutoCommit for that
\* channel with the paths the routine produced.
C23_HarvestFailureIsolated ==
    \A c \in Cycles :
        cyc[c].pc = "return" =>
            \A i \in 1..Len(cyc[c].results) :
                LET r == cyc[c].results[i]
                    h == harvests[c][i]
                IN (h.launched /\ (h.probe = "crashed" \/ h.copyFailed)) =>
                      /\ r.downloaded /\ ~r.error
                      /\ \A d \in runtimeDirs : RuntimePath(d) \notin r.extractedFiles
                      /\ \E k \in 1..Len(cyc[c].calls) :
                            /\ cyc[c].calls[k].ch = i
                            /\ r.extractedFiles \subseteq cyc[c].calls[k].files

\* C24: when the fetch of a channel's manifest fails, one request was made
\* for it, the step changes nothing under versions/, extracted/ or
\* runtime-archives/, and the commit loop of that cycle does not call
\* gitAutoCommit for the channel.
C24_FetchFailureSkipsChannel ==
    /\ [][\A c \in Cycles :
            (/\ cyc[c].pc = "fetch"
             /\ Len(cyc'[c].results) = Len(cyc[c].results) + 1
             /\ cyc'[c].results[Len(cyc'[c].results)].error)
            => /\ cyc'[c].results[Len(cyc'[c].results)].fetches = 1
               /\ UNCHANGED <<versionDirs, artifacts, metaFiles, extractedDirs, unzipped,
                              manifests, runtimeDirs>>]_vars
    /\ [](\A c \in Cycles :
            cyc[c].pc = "return" =>
                \A i \in 1..Len(cyc[c].results) :
                    cyc[c].results[i].error =>
                        \A k \in 1..Len(cyc[c].calls) : cyc[c].calls[k].ch # i)

\* The fetch of one channel failed in a cycle whose commit loop called
\* gitAutoCommit for the other channel.
C24_Witness ==
    \E c \in Cycles, i \in ChannelIdx :
        /\ cyc[c].pc = "return"
        /\ Len(cyc[c].results) = NumChannels
        /\ cyc[c].results[i].error
        /\ cyc[c].results[i].fetches = 1
        /\ \E k \in 1..Len(cyc[c].calls) : cyc[c].calls[k].ch # i

\* The files a directory d under versions/ holds.
FilesUnder(d) ==
    <<{a \in artifacts : a.dir = d}, {m \in metaFiles : m.dir = d}>>

\* C25: a step that finds the version directory of the advertised (version,
\* channel) in place adds, replaces and removes nothing under versions/:
\* every directory that exists under versions/ before a step is there after
\* it with the same files.
C25_ExistingVersionUntouched ==
    [][\A d \in versionDirs : d \in versionDirs' /\ FilesUnder(d)' = FilesUnder(d)]_vars

\* The directory a path lies in, and the position of a name in CopyNames.
ParentOf(p) == SubSeq(p, 1, Len(p) - 1)

NameIndex(n) == CHOOSE i \in NameIdx : CopyNames[i] = n

\* The entry at path p of the source tree is excluded by the filter; is a
\* directory.
IsExcludedEntry(p) == ShouldExclude(p[Len(p)], ParentOf(p))

IsDirEntry(p) == ListingAt(ParentOf(p))[NameIndex(p[Len(p)])] = "dir"

RECURSIVE VisitedUnder(_)
\* The entries of the source tree at or below the directory rel that a copy
\* has to look at: every entry of a directory it enters, where it enters a
\* directory unless the filter excludes it or entering it failed.
VisitedUnder(rel) ==
    UNION {{Append(rel, e.name)} \cup
             (IF e.dir /\ ~ShouldExclude(e.name, rel) /\ Append(rel, e.name) \notin copyResult.failed
              THEN VisitedUnder(Append(rel, e.name)) ELSE {})
           : e \in {Readdir(rel)[j] : j \in 1..Len(Readdir(rel))}}

\* C26: nothing at or below an excluded directory is in the destination, and
\* every excluded entry adds exactly 1 to the exclusion count, whatever it
\* holds (the other additions are the entries whose copy failed).
C26_ExcludedDirCountedOnce ==
    copyResult.done =>
        /\ \A p \in VisitedUnder(<<>>) :
              IsExcludedEntry(p) =>
                  \A q \in destTree : ~(Len(q) >= Len(p) /\ SubSeq(q, 1, Len(p)) = p)
        /\ copyResult.excluded =
              Cardinality({p \in VisitedUnder(<<>>) : IsExcludedEntry(p)})
              + Cardinality(copyResult.failed)

\* The source holds the file settings.json and a directory Cookies with
\* entries; the copy made settings.json only and returned copied 1, excluded 1.
C26_Witness ==
    /\ copyResult.done
    /\ \A i \in NameIdx :
          srcTree.top[i] = (CASE CopyNames[i] = <<"settings", ".", "json">> -> "file"
                              [] CopyNames[i] = <<"Cookie", "s">> -> "dir"
                              [] OTHER -> "none")
    /\ \E i \in NameIdx : srcTree.inner[i] = "file"
    /\ destTree = {<< <<"settings", ".", "json">> >>}
    /\ copyResult.copied = 1
    /\ copyResult.excluded = 1

\* C27: the two counts of the result reflect every entry at the top level of
\* the source, file or directory, empty or not, and the counts of a nested
\* directory are added to those of its parent.
C27_CountsCoverTopLevel ==
    copyResult.done =>
        /\ copyResult.copied + copyResult.excluded >= Len(Readdir(<<>>))
        /\ copyResult.copied + copyResult.excluded =
              Cardinality({p \in VisitedUnder(<<>>) :
                              IsExcludedEntry(p) \/ p \in copyResult.failed \/ ~IsDirEntry(p)})

\* C28: an entry whose copy throws adds 1 to the exclusion count and the loop
\* goes on: every other entry the copy has to look at is copied unless the
\* filter excludes it, and the call returns its counts.
C28_CopyFailureTolerated ==
    /\ frames = <<>> => copyResult.done
    /\ copyResult.done =>
          /\ \A p \in VisitedUnder(<<>>) :
                (~IsExcludedEntry(p) /\ p \notin copyResult.failed) => p \in destTree
          /\ copyResult.failed \subseteq VisitedUnder(<<>>)
          /\ copyResult.excluded - Cardinality({p \in VisitedUnder(<<>>) : IsExcludedEntry(p)})
                = Cardinality(copyResult.failed)
          /\ copyResult.copied =
                Cardinality({p \in VisitedUnder(<<>>) :
                                ~IsExcludedEntry(p) /\ p \notin copyResult.failed /\ ~IsDirEntry(p)})

\* The copy of one entry failed and an entry that comes after it in the same
\* directory was copied; the call has returned.
C28_Witness ==
    /\ copyResult.done
    /\ \E p \in copyResult.failed, q \in destTree :
          /\ ParentOf(p) = ParentOf(q)
          /\ Len(q) = Len(p)
          /\ NameIndex(q[Len(q)]) > NameIndex(p[Len(p)])

\* Channel i's harvest of cycle c has looked for a data directory and found none.
NoDataDir(c, i) == harvests[c][i].probed /\ harvests[c][i].archive = <<>>

\* The probe takes the first entry of possibleDataDirs that exists, and none
\* only when no entry exists.
FirstExistingIsSource ==
    \A exists \in DataDirPatterns :
        LET k == FoundDataDir(exists)
        IN /\ k \in 0..NumDataDirs
           /\ (k = 0) <=> (\A j \in 1..NumDataDirs : ~exists[j])
           /\ k # 0 => exists[k] /\ \A j \in 1..(k - 1) : ~exists[j]

\* A harvest that finds no data directory makes no runtime archive directory
\* and adds no path.
NoDataDirNoArchive ==
    \A c \in Cycles, i \in ChannelIdx :
        (~NoDataDir(c, i) /\ NoDataDir(c, i)') =>
            /\ runtimeDirs' = runtimeDirs
            /\ cyc'[c].filesToAdd = cyc[c].filesToAdd

\* C29: the harvest takes the first candidate data directory that exists as
\* its source; when none exists it makes no runtime archive directory, adds
\* no path, and the launcher it started is no longer running when the routine
\* returns.
C29_FirstDataDirOrNone ==
    /\ [](FirstExistingIsSource)
    /\ [][NoDataDirNoArchive]_vars
    /\ [](\A c \in Cycles, i \in ChannelIdx :
            (NoDataDir(c, i) /\ harvests[c][i].returned) => ~harvests[c][i].aliveAtReturn)

\* The files of an extracted archive, as paths from the extraction directory.
ZipFiles(tree) ==
    {<<ZipNames[i]>> : i \in {k \in ZipNameIdx : tree.top[k] = "file"}}
    \cup {<<ZipNames[d], ZipNames[i]>> :
            d \in {k \in ZipNameIdx : tree.top[k] = "dir"},
            i \in {k \in ZipNameIdx : tree.inner[k] = "file"}}

ZipNameIndex(n) == CHOOSE i \in ZipNameIdx : ZipNames[i] = n

\* File p comes before file q when the tree is walked depth-first, each
\* directory in the order of its entries.
WalkedBefore(p, q) ==
    \E k \in 1..Len(p) :
        /\ k <= Len(q)
        /\ SubSeq(p, 1, k - 1) = SubSeq(q, 1, k - 1)
        /\ ZipNameIndex(p[k]) < ZipNameIndex(q[k])

\* The first file of the walk whose name contains a candidate fragment.
FirstMatch(tree) ==
    LET named == {p \in ZipFiles(tree) : MatchesPossibleNames(p[Len(p)])}
    IN IF named = {} THEN NoPath
       ELSE CHOOSE p \in named : \A q \in named \ {p} : WalkedBefore(p, q)

\* findLauncherExecutable of the service returns the first such file, and
\* null exactly when there is none.
ServiceFindsFirstMatch == FindLauncherExecutable(zipTree) = FirstMatch(zipTree)

\* Without such a file no launcher is started and no harvest is made.
NoLauncherNoHarvest ==
    FirstMatch(zipTree) = NoPath =>
        /\ runtimeDirs = {}
        /\ \A c \in Cycles, i \in ChannelIdx :
              ~harvests[c][i].launched /\ ~harvests[c][i].probed

\* C30: the launcher lookup returns the first file, walking the extracted
\* archive depth-first in directory-entry order, whose name contains a
\* candidate fragment whatever its case, and null exactly when there is no
\* such file; when it returns null no launcher is started and no harvest is
\* made.  Both lookups of the repository are meant.
C30_FirstLauncherOrNone ==
    /\ ServiceFindsFirstMatch
    /\ FindLauncher(zipTree, <<>>) = FirstMatch(zipTree)
    /\ NoLauncherNoHarvest

\* The download_url entries of result i of cycle c whose downloadFile call
\* rejected: the platform has no sha256.txt in the directory the call made.
FailedDownloads(c, i) ==
    LET r == cyc[c].results[i]
        plats == ManifestPlatforms(Channels[i])
    IN {k \in 1..Len(plats) :
          ~\E m \in metaFiles : m.dir = r.usedDir /\ m.sub = plats[k] /\ m.file = "sha256.txt"}

\* Result i of cycle c is that of a call that made its version directory and
\* ran the download loop.
RanDownloadLoop(c, i) ==
    LET r == cyc[c].results[i]
    IN ~r.error /\ ~r.existed /\ r.usedDir # <<>>

\* C31: after an artifact download that was rejected no file is at its
\* destination and it is not counted; the other artifacts of the manifest were
\* still downloaded, so every entry without a trace is one failed download.
C31_FailedDownloadSkipped ==
    \A c \in Cycles : \A i \in 1..Len(cyc[c].results) :
        RanDownloadLoop(c, i) =>
            LET r == cyc[c].results[i]
                plats == ManifestPlatforms(Channels[i])
                kept == {a \in artifacts : a.dir = r.usedDir}
            IN /\ \A k \in FailedDownloads(c, i) : ~\E a \in kept : a.plat = plats[k]
               /\ r.count = Cardinality(kept)
               /\ r.count <= Len(plats) - Cardinality(FailedDownloads(c, i))
               /\ Cardinality(FailedDownloads(c, i)) <= faults

\* The first download of a manifest with two artifacts was rejected and the
\* second artifact was downloaded and counted.
C31_Witness ==
    \E c \in Cycles : \E i \in 1..Len(cyc[c].results) :
        /\ RanDownloadLoop(c, i)
        /\ FailedDownloads(c, i) = {1}
        /\ Len(ManifestPlatforms(Channels[i])) = 2
        /\ cyc[c].results[i].count = 1
        /\ \E a \in artifacts : a.dir = cyc[c].results[i].usedDir /\ a.plat = "linux-amd64"

LinuxArchives(i) ==
    {a \in artifacts :
        /\ a.plat = "linux-amd64"
        /\ a.dir \in DirsOfVersion(FullVersion(ManifestVersion(Channels[i]), Channels[i]))}

\* C33: an archive has been unzipped, or a launcher taken from it started,
\* only if its SHA-256 was compared with the digest of the manifest, and found
\* equal, when it was downloaded.
C33_OnlyVerifiedExtracted ==
    \A i \in ChannelIdx :
        LET fv == FullVersion(ManifestVersion(Channels[i]), Channels[i])
        IN (fv \in unzipped \/ \E c \in Cycles : harvests[c][i].launched) =>
              \A a \in LinuxArchives(i) : a \in verifiedLog /\ DigestAsDeclared(a)

\* The launched launcher processes that are running.
LiveChildren == {ci \in Cycles \X ChannelIdx : harvests[ci[1]][ci[2]].alive}

\* C34: at most one launched launcher process is running at any time.
C34_OneLiveChild == Cardinality(LiveChildren) <= 1

\* Every cycle but the last has returned.
EarlierCyclesDone == \A c \in Cycles \ {MaxCycles} : cyc[c].pc = "done"

\* A step that makes no directory, downloads nothing, starts no launcher and
\* makes no commit.
QuietStep ==
    /\ versionDirs' = versionDirs
    /\ artifacts' = artifacts
    /\ extractedDirs' = extractedDirs
    /\ runtimeDirs' = runtimeDirs
    /\ git'.made = git.made
    /\ \A c \in Cycles, i \in ChannelIdx : harvests'[c][i].launched => harvests[c][i].launched

\* C35: with the manifests unchanged, the pipeline settles: once the earlier
\* cycles have run, a further cycle makes no directory, downloads nothing,
\* starts no launcher and makes no commit.
C35_CyclesSettle == [][EarlierCyclesDone => QuietStep]_vars

\* C36: a version that exists and is extracted is passed over as already
\* harvested only if runtime-archives/ holds an archive made of that very
\* version and channel.
C36_HarvestedByOwnArchive ==
    \A c \in Cycles : \A i \in 1..Len(cyc[c].results) :
        LET r == cyc[c].results[i]
        IN (/\ cfg.extractEnabled /\ cfg.runLauncherEnabled
            /\ ~r.downloaded /\ ~r.error /\ r.existed) =>
              RuntimeDirsOfVersion(r.version) # {}

\* The result processEndpoint returns in this step of cycle c, if it returns.
Returned(c) == cyc'[c].results[Len(cyc'[c].results)]

\* A call of processEndpoint for a version that is already unzipped reports
\* it as not downloaded: nothing was left to do.
ExtractedIsSkipped ==
    \A c \in Cycles :
        (Len(cyc'[c].results) = Len(cyc[c].results) + 1 /\ Returned(c).version \in unzipped)
            => ~Returned(c).downloaded

\* C37: with launcher execution switched off no launcher is ever started and
\* no directory is made under runtime-archives/, and a version that is
\* already extracted is reported fully processed, not processed again.
C37_LauncherOffNoHarvest ==
    /\ [](~cfg.runLauncherEnabled =>
            /\ runtimeDirs = {}
            /\ \A c \in Cycles, i \in ChannelIdx : ~harvests[c][i].launched)
    /\ [][~cfg.runLauncherEnabled => ExtractedIsSkipped]_vars

\* C38: for every source tree the rsync harvest of archive.js leaves out
\* exactly the entries copyDirectoryWithFilters leaves out: when no copy
\* fails the two destinations hold the same entries.
C38_SameExclusions ==
    (copyResult.done /\ copyResult.failed = {}) => destTree = RsyncCopies(<<>>)

====
